---- MODULE Spec2Model ----
(***************************************************************************)
(* Model of sqlite::sql_result (src/sqlite.hpp), the "must be observed"    *)
(* result guard.  A guard is a record of its three fields (value,          *)
(* m_saw_error, m_err); the program holds a bounded number of guard        *)
(* objects in storage slots.  A boost::optional<sql_error> is a sequence   *)
(* of length 0 (empty) or 1 (engaged).  An exception thrown by an          *)
(* operation is recorded in op.exc and counted in raised; what happens to  *)
(* the exception after the throw expression (propagation, or termination   *)
(* at the implicitly noexcept destructor) is not part of the model.        *)
(***************************************************************************)
EXTENDS Integers, Sequences, FiniteSets, TLC

\* ---- bounds ----
MaxGuards == 2
MaxRaised == 2

\* ---- native status codes (sqlite3.h) ----
SQLITE_OK == 0
SQLITE_ROW == 100
SQLITE_DONE == 101

\* A status no factory takes for success (5 is SQLITE_BUSY in sqlite3.h).
FailureStatuses == {5}

Statuses == {SQLITE_OK, SQLITE_ROW, SQLITE_DONE} \cup FailureStatuses

\* What the native calls behind from_cmd (sqlite3_open, sqlite3_exec,
\* sqlite3_prepare_v2, sqlite3_bind_*) and from_stmt (sqlite3_step) return.
CmdResults == {SQLITE_OK} \cup FailureStatuses
StmtResults == {SQLITE_ROW, SQLITE_DONE} \cup FailureStatuses

\* What sqlite3_errmsg may answer for the handle.
Messages == {"disk I/O error", "database is locked"}

Slots == 1..MaxGuards

VARIABLES
    live,      \* the slots that hold a constructed sql_result
    obj,       \* slot -> the fields of the sql_result stored there
    raised,    \* number of exceptions thrown so far
    op,        \* the operation executed last, with what it returned/threw
    arg,       \* the native status and message handed to the factory called last
    elive,     \* the slots that hold a constructed expected<T>
    eobj,      \* slot -> the tag and the union of the expected<T> stored there
    eop,       \* the expected<T> operation executed last, with its outcome
    pc,        \* where the caller of the binding layer stands
    calls,     \* the native calls made so far, with the status each returned
    rows,      \* rows the result set of the select statement still holds
    body       \* executions of the body of the row loop

\* The variables of the guard objects, of the variants, of the binding layer.
gvars == <<live, obj, raised, op>>
evars == <<elive, eobj, eop>>
bvars == <<pc, calls, rows, body>>
xvars == <<arg, elive, eobj, eop, pc, calls, rows, body>>
vars == <<live, obj, raised, op, arg, elive, eobj, eop, pc, calls, rows, body>>

\* ---- boost::optional<sql_error> ----
None == <<>>
Some(e) == <<e>>

\* struct sql_error
sql_error(_code, _message) == [code |-> _code, message |-> _message]

\* Storage that holds no object.
NoObject == [value |-> 0, m_saw_error |-> TRUE, m_err |-> None]

\* The state a std::string is left in by a move: valid but unspecified.
MovedFromString(s) == {s, ""}

\* Results of operator* on an optional: the contained error; on an empty
\* optional the behaviour is undefined (nothing thrown, or garbage thrown).
Deref(o) ==
    IF o # None THEN {o}
    ELSE {None} \cup {Some(sql_error(c, "")) : c \in Statuses}

\* ---- private constructors ----
Ctor1_Dirty(_value) ==
    [value |-> _value, m_saw_error |-> FALSE, m_err |-> None]

Ctor1(_value) ==
    [value |-> _value, m_saw_error |-> TRUE, m_err |-> None]

Ctor2(_value, err) ==
    [value |-> _value, m_saw_error |-> FALSE, m_err |-> Some(err)]

\* ---- factories ----
from_cmd_AsStmt(_value, msg) ==
    IF _value = SQLITE_OK \/ _value = SQLITE_ROW \/ _value = SQLITE_DONE
    THEN Ctor1(_value)
    ELSE Ctor2(_value, sql_error(_value, msg))

from_cmd(_value, msg) ==
    IF _value = SQLITE_OK
    THEN Ctor1(_value)
    ELSE Ctor2(_value, sql_error(_value, msg))

from_stmt(_value, msg) ==
    IF _value = SQLITE_ROW \/ _value = SQLITE_DONE
    THEN Ctor1(_value)
    ELSE Ctor2(_value, sql_error(_value, msg))

\* ---- copy constructor sql_result(sql_result& rhs) ----
CopyCtor_new(rhs) ==
    [value |-> rhs.value, m_saw_error |-> rhs.m_saw_error, m_err |-> rhs.m_err]

CopyCtor_rhs_Keep(new, rhs) == rhs

CopyCtor_rhs(new, rhs) ==
    IF ~new.m_saw_error THEN [rhs EXCEPT !.m_saw_error = TRUE] ELSE rhs

\* ---- move constructor sql_result(sql_result&& rhs) ----
MoveCtor_new(rhs) ==
    [value |-> rhs.value, m_saw_error |-> rhs.m_saw_error, m_err |-> rhs.m_err]

\* std::move of an int or a bool copies; the optional stays engaged and its
\* sql_error keeps code, the message is left in the moved-from state s.
MoveCtor_rhs_Reset(rhs, s) == [rhs EXCEPT !.m_err = None]

MoveCtor_rhs(rhs, s) ==
    IF rhs.m_err = None THEN rhs
    ELSE [rhs EXCEPT !.m_err = Some(sql_error(rhs.m_err[1].code, s))]

\* ---- operator=(sql_result& rhs) ----
CopyAssign_this(this, rhs) ==
    [this EXCEPT !.value = rhs.value,
                 !.m_err = rhs.m_err,
                 !.m_saw_error = rhs.m_saw_error]

CopyAssign_rhs_Keep(this, rhs) == rhs

CopyAssign_rhs(this, rhs) ==
    IF ~this.m_saw_error THEN [rhs EXCEPT !.m_saw_error = TRUE] ELSE rhs

\* ---- operator=(sql_result&& rhs) ----
MoveAssign_this(this, rhs) ==
    [this EXCEPT !.value = rhs.value,
                 !.m_err = rhs.m_err,
                 !.m_saw_error = rhs.m_saw_error]

MoveAssign_rhs(rhs, s) ==
    IF rhs.m_err = None THEN rhs
    ELSE [rhs EXCEPT !.m_err = Some(sql_error(rhs.m_err[1].code, s))]

\* ---- destructor ----
DtorThrows_Always(this) == this.m_err # None

DtorThrows(this) == ~this.m_saw_error

\* ---- status predicates ----
has_data(this) == this.value = SQLITE_ROW
ok(this) == this.value = SQLITE_OK
done(this) == this.value = SQLITE_DONE

Predicate_this_Observe(this) == [this EXCEPT !.m_saw_error = TRUE]

\* The predicates are const: the object after the call.
Predicate_this(this) == this

\* ---- throw_error / error ----
throw_error_this_Late(this) == this

throw_error_this(this) == [this EXCEPT !.m_saw_error = TRUE]

error_this_Forget(this) == this

error_this(this) == [this EXCEPT !.m_saw_error = TRUE]

error_ret(this) == this.m_err

\* ---- explicit operator bool() const ----
operator_bool(this) == has_data(this) /\ ok(this) /\ done(this)

operator_bool_this(this) == this

\* ---- the record of the last operation ----
Op(n, s, r, b, e, x) ==
    [name |-> n, self |-> s, rhs |-> r, ret |-> b, err |-> e, exc |-> x]

Count(x) == IF x = None THEN 0 ELSE 1

\* ======================= expected<T> (src/expected.hpp) =================
MaxExpected == 2
ESlots == 1..MaxExpected

\* Values of T.
Values == {0, 42}

\* Exception types: each with its public base ("" for none).
Kinds == {"exception", "runtime_error", "logic_error"}
Base(k) ==
    CASE k = "runtime_error" -> "exception"
      [] k = "logic_error" -> "exception"
      [] OTHER -> ""

\* An exception object, and a std::exception_ptr to one (or the null one).
Exception(k, m) == [kind |-> k, message |-> m]
Exceptions == {Exception(k, "not found") : k \in Kinds}
NullPtr == Exception("", "")
ExcPtrs == Exceptions \cup {NullPtr}

\* catch (const E &) takes an exception of type k: k is E or derives from E.
RECURSIVE Catches(_, _)
Catches_Exact(E, k) == k = E

Catches(E, k) ==
    IF k = "" THEN FALSE
    ELSE IF k = E THEN TRUE
    ELSE Catches(E, Base(k))

\* An expected<T>: the tag and the two members of the union, each constructed
\* (a sequence of length 1) or not.
Variant(t, h, s) == [gotHam |-> t, ham |-> h, spam |-> s]
NoVariant == Variant(FALSE, None, None)

\* What a read of a member yields: its value, or anything when the member
\* is not constructed (undefined behaviour).
ReadHam(e) == IF e.ham # None THEN {e.ham[1]} ELSE Values
ReadSpam(e) == IF e.spam # None THEN {e.spam[1]} ELSE ExcPtrs

\* The states a move leaves its source in: valid but unspecified.
MovedFromValue(v) == {v, 0}
MovedFromPtr(q) == {q, NullPtr}

\* std::rethrow_exception(q): throws the exception q points to; undefined on
\* the null pointer (anything thrown, or nothing).
Rethrow(q) ==
    IF q # NullPtr THEN {Some(q)}
    ELSE {None} \cup {Some(x) : x \in Exceptions}

\* ---- constructors from a value ----
ValueCtor_Untagged(rhs) == Variant(FALSE, Some(rhs), None)

ValueCtor(rhs) == Variant(TRUE, Some(rhs), None)

\* ---- expected(const expected &rhs): the new object, one per outcome ----
ECopyCtor_Both(rhs) ==
    {Variant(rhs.gotHam, Some(v), Some(q)) :
        v \in ReadHam(rhs), q \in ReadSpam(rhs)}

ECopyCtor_new(rhs) ==
    IF rhs.gotHam
    THEN {Variant(rhs.gotHam, Some(v), None) : v \in ReadHam(rhs)}
    ELSE {Variant(rhs.gotHam, None, Some(q)) : q \in ReadSpam(rhs)}

\* ---- expected(expected &&rhs): the new object; the source after the move ----
EMoveCtor_new(rhs) ==
    IF rhs.gotHam
    THEN {Variant(rhs.gotHam, Some(v), None) : v \in ReadHam(rhs)}
    ELSE {Variant(rhs.gotHam, None, Some(q)) : q \in ReadSpam(rhs)}

\* The constructors read the member the tag names.
CtorUB(rhs) == IF rhs.gotHam THEN rhs.ham = None ELSE rhs.spam = None

EMoveCtor_rhs(rhs) ==
    IF rhs.gotHam
    THEN IF rhs.ham = None THEN {rhs}
         ELSE {[rhs EXCEPT !.ham = Some(v)] : v \in MovedFromValue(rhs.ham[1])}
    ELSE IF rhs.spam = None THEN {rhs}
         ELSE {[rhs EXCEPT !.spam = Some(q)] : q \in MovedFromPtr(rhs.spam[1])}

\* ---- operator=: ham = rhs.ham; gotHam = rhs.gotHam ----
\* The assignment goes through the value member on both sides whatever the
\* tags say.  It is defined only when both value members are constructed.
AssignUB(this, rhs) == this.ham = None \/ rhs.ham = None

\* The destination afterwards: the value member assigned when it is
\* constructed; when it is not, the storage of the exception_ptr is
\* overwritten (a value member comes to be there) or left as it was.
EAssign_this(this, rhs) ==
    IF this.ham # None
    THEN {Variant(rhs.gotHam, Some(v), None) : v \in ReadHam(rhs)}
    ELSE {Variant(rhs.gotHam, Some(v), None) : v \in ReadHam(rhs)}
         \cup {Variant(rhs.gotHam, None, this.spam)}

\* The source of the move assignment afterwards.
EMoveAssign_rhs(rhs) ==
    IF rhs.ham = None THEN {rhs}
    ELSE {[rhs EXCEPT !.ham = Some(v)] : v \in MovedFromValue(rhs.ham[1])}

\* ---- ~expected(): the member destroyed ----
EDtor_member(this) == IF this.gotHam THEN "ham" ELSE "spam"

\* Destroying a member that is not constructed is undefined.
EDtorUB(this) ==
    IF EDtor_member(this) = "ham" THEN this.ham = None ELSE this.spam = None

\* ---- from_exception(std::exception_ptr p) ----
\* result.gotHam = false; new (&result.spam) std::exception_ptr(std::move(p))
from_exception(p) == Variant(FALSE, None, Some(p))

\* ---- valid / get / has_exception ----
valid(this) == this.gotHam

\* Outcomes of get(): the value returned or the exception thrown, and
\* whether the behaviour was undefined.
Outcome(v, x, u) == [val |-> v, exc |-> x, ub |-> u]

get_Swallow(this) ==
    IF this.gotHam
    THEN {Outcome(Some(v), None, this.ham = None) : v \in ReadHam(this)}
    ELSE {Outcome(Some(v), None, TRUE) : v \in Values}

get(this) ==
    IF this.gotHam
    THEN {Outcome(Some(v), None, this.ham = None) : v \in ReadHam(this)}
    ELSE LET thrown == UNION {Rethrow(q) : q \in ReadSpam(this)}
             bad == this.spam = None \/ this.spam = Some(NullPtr)
         IN {Outcome(None, x, bad) : x \in thrown \ {None}}
            \cup {Outcome(Some(v), None, TRUE) : v \in
                    (IF None \in thrown THEN ReadHam(this) ELSE {})}

\* Outcomes of has_exception<E>(): the answer, and whether undefined.
Probe(b, u) == [ret |-> b, ub |-> u]

has_exception(this, E) ==
    IF this.gotHam THEN {Probe(FALSE, FALSE)}
    ELSE LET thrown == UNION {Rethrow(q) : q \in ReadSpam(this)}
             bad == this.spam = None \/ this.spam = Some(NullPtr)
         IN {Probe(IF x = None THEN FALSE ELSE Catches(E, x[1].kind), bad) :
                x \in thrown}

\* ---- from_code(fun): what fun() does, and the variant made of it ----
Returns(v) == [thrown |-> FALSE, val |-> v, exc |-> NullPtr]
Throws(x) == [thrown |-> TRUE, val |-> 0, exc |-> x]
FunOutcomes == {Returns(v) : v \in Values} \cup {Throws(x) : x \in Exceptions}

from_code_NoCatch(out) == ValueCtor(out.val)

from_code(out) ==
    IF out.thrown THEN from_exception(out.exc) ELSE ValueCtor(out.val)

\* ---- the record of the last operation on a variant ----
\* ret/val/exc: what it returned or threw; ub: whether it touched a member
\* that is not constructed; argv/argp/argk: the value, exception_ptr or
\* exception type it was given; member: the union member it destroyed.
EOp(n, s, r, b, v, x, u, av, ap, ak, mem) ==
    [name |-> n, self |-> s, rhs |-> r, ret |-> b, val |-> v, exc |-> x,
     ub |-> u, argv |-> av, argp |-> ap, argk |-> ak, member |-> mem]

InitExpected ==
    /\ elive = {}
    /\ eobj = [e \in ESlots |-> NoVariant]
    /\ eop = EOp("init", 0, 0, FALSE, None, None, FALSE, None, None, "", "")

InitBinding ==
    /\ pc = "main"
    /\ calls = <<>>
    /\ rows = 0
    /\ body = 0

\* The arguments of a factory call.
Arg(f, v, msg) == [fn |-> f, status |-> v, msg |-> msg]

----
\* Before any factory call.
InitRest ==
    /\ arg = Arg("", 0, "")
    /\ InitExpected
    /\ InitBinding

Init ==
    /\ live = {}
    /\ obj = [g \in Slots |-> NoObject]
    /\ raised = 0
    /\ op = Op("init", 0, 0, FALSE, None, None)
    /\ InitRest

FromCmd(g, v, msg) ==
    /\ g \notin live
    /\ live' = live \cup {g}
    /\ obj' = [obj EXCEPT ![g] = from_cmd(v, msg)]
    /\ op' = Op("from_cmd", g, 0, FALSE, None, None)
    /\ UNCHANGED raised

FromStmt(g, v, msg) ==
    /\ g \notin live
    /\ live' = live \cup {g}
    /\ obj' = [obj EXCEPT ![g] = from_stmt(v, msg)]
    /\ op' = Op("from_stmt", g, 0, FALSE, None, None)
    /\ UNCHANGED raised

CopyConstruct(g, r) ==
    /\ g \notin live
    /\ r \in live
    /\ live' = live \cup {g}
    /\ LET new == CopyCtor_new(obj[r])
       IN obj' = [obj EXCEPT ![g] = new, ![r] = CopyCtor_rhs(new, @)]
    /\ op' = Op("copy_ctor", g, r, FALSE, None, None)
    /\ UNCHANGED raised

MoveConstruct(g, r, s) ==
    /\ g \notin live
    /\ r \in live
    /\ live' = live \cup {g}
    /\ obj' = [obj EXCEPT ![g] = MoveCtor_new(obj[r]), ![r] = MoveCtor_rhs(@, s)]
    /\ op' = Op("move_ctor", g, r, FALSE, None, None)
    /\ UNCHANGED raised

\* g = r, self-assignment (g and r the same object) included.
CopyAssign(g, r) ==
    /\ g \in live
    /\ r \in live
    /\ LET this == CopyAssign_this(obj[g], obj[r])
       IN obj' = [obj EXCEPT ![g] = this, ![r] = CopyAssign_rhs(this, @)]
    /\ op' = Op("copy_assign", g, r, FALSE, None, None)
    /\ UNCHANGED <<live, raised>>

MoveAssign(g, r, s) ==
    /\ g \in live
    /\ r \in live
    /\ obj' = [obj EXCEPT ![g] = MoveAssign_this(@, obj[r]), ![r] = MoveAssign_rhs(@, s)]
    /\ op' = Op("move_assign", g, r, FALSE, None, None)
    /\ UNCHANGED <<live, raised>>

Destroy(g) ==
    /\ g \in live
    /\ live' = live \ {g}
    /\ obj' = [obj EXCEPT ![g] = NoObject]
    /\ \E x \in (IF DtorThrows(obj[g]) THEN Deref(obj[g].m_err) ELSE {None}) :
          /\ raised + Count(x) <= MaxRaised
          /\ raised' = raised + Count(x)
          /\ op' = Op("dtor", g, 0, FALSE, None, x)

HasData(g) ==
    /\ g \in live
    /\ obj' = [obj EXCEPT ![g] = Predicate_this(@)]
    /\ op' = Op("has_data", g, 0, has_data(obj[g]), None, None)
    /\ UNCHANGED <<live, raised>>

Ok(g) ==
    /\ g \in live
    /\ obj' = [obj EXCEPT ![g] = Predicate_this(@)]
    /\ op' = Op("ok", g, 0, ok(obj[g]), None, None)
    /\ UNCHANGED <<live, raised>>

Done(g) ==
    /\ g \in live
    /\ obj' = [obj EXCEPT ![g] = Predicate_this(@)]
    /\ op' = Op("done", g, 0, done(obj[g]), None, None)
    /\ UNCHANGED <<live, raised>>

ThrowError(g) ==
    /\ g \in live
    /\ obj' = [obj EXCEPT ![g] = throw_error_this(@)]
    /\ \E x \in Deref(obj[g].m_err) :
          /\ raised + Count(x) <= MaxRaised
          /\ raised' = raised + Count(x)
          /\ op' = Op("throw_error", g, 0, FALSE, None, x)
    /\ UNCHANGED live

Error(g) ==
    /\ g \in live
    /\ obj' = [obj EXCEPT ![g] = error_this(@)]
    /\ op' = Op("error", g, 0, FALSE, error_ret(obj[g]), None)
    /\ UNCHANGED <<live, raised>>

OperatorBool(g) ==
    /\ g \in live
    /\ obj' = [obj EXCEPT ![g] = operator_bool_this(@)]
    /\ op' = Op("operator_bool", g, 0, operator_bool(obj[g]), None, None)
    /\ UNCHANGED <<live, raised>>

Next ==
    \/ \E g \in Slots, v \in CmdResults, msg \in Messages : FromCmd(g, v, msg) /\ UNCHANGED xvars
    \/ \E g \in Slots, v \in StmtResults, msg \in Messages : FromStmt(g, v, msg) /\ UNCHANGED xvars
    \/ \E g \in Slots, r \in Slots : CopyConstruct(g, r) /\ UNCHANGED xvars
    \/ \E g \in Slots, r \in Slots :
          \E s \in (IF obj[r].m_err = None THEN {""}
                    ELSE MovedFromString(obj[r].m_err[1].message)) :
             MoveConstruct(g, r, s) /\ UNCHANGED xvars
    \/ \E g \in Slots, r \in Slots : CopyAssign(g, r) /\ UNCHANGED xvars
    \/ \E g \in Slots, r \in Slots :
          \E s \in (IF obj[r].m_err = None THEN {""}
                    ELSE MovedFromString(obj[r].m_err[1].message)) :
             MoveAssign(g, r, s) /\ UNCHANGED xvars
    \/ \E g \in Slots : Destroy(g) /\ UNCHANGED xvars
    \/ \E g \in Slots : HasData(g) /\ UNCHANGED xvars
    \/ \E g \in Slots : Ok(g) /\ UNCHANGED xvars
    \/ \E g \in Slots : Done(g) /\ UNCHANGED xvars
    \/ \E g \in Slots : ThrowError(g) /\ UNCHANGED xvars
    \/ \E g \in Slots : Error(g) /\ UNCHANGED xvars
    \/ \E g \in Slots : OperatorBool(g) /\ UNCHANGED xvars

Spec == Init /\ [][Next]_vars

\* ---- one guard built from a failure, and what descends from it ----
FailureGuards ==
    {c \in {from_cmd(v, msg) : v \in CmdResults, msg \in Messages}
           \cup {from_stmt(v, msg) : v \in StmtResults, msg \in Messages} :
        ~c.m_saw_error}

InitOne ==
    /\ live = {1}
    /\ \E c \in FailureGuards : obj = [g \in Slots |-> IF g = 1 THEN c ELSE NoObject]
    /\ raised = 0
    /\ op = Op("init", 1, 0, FALSE, None, None)
    /\ InitRest

\* Copy construction, copy assignment, predicates and destruction only.
NextCopy ==
    \/ \E g \in Slots, r \in Slots : CopyConstruct(g, r) /\ UNCHANGED xvars
    \/ \E g \in Slots, r \in Slots : CopyAssign(g, r) /\ UNCHANGED xvars
    \/ \E g \in Slots : Destroy(g) /\ UNCHANGED xvars
    \/ \E g \in Slots : HasData(g) /\ UNCHANGED xvars
    \/ \E g \in Slots : Ok(g) /\ UNCHANGED xvars
    \/ \E g \in Slots : Done(g) /\ UNCHANGED xvars

SpecCopy == InitOne /\ [][NextCopy]_vars

\* Every operation of a guard, no second failure.
NextOne ==
    \/ \E g \in Slots, r \in Slots : CopyConstruct(g, r) /\ UNCHANGED xvars
    \/ \E g \in Slots, r \in Slots :
          \E s \in (IF obj[r].m_err = None THEN {""}
                    ELSE MovedFromString(obj[r].m_err[1].message)) :
             MoveConstruct(g, r, s) /\ UNCHANGED xvars
    \/ \E g \in Slots, r \in Slots : CopyAssign(g, r) /\ UNCHANGED xvars
    \/ \E g \in Slots, r \in Slots :
          \E s \in (IF obj[r].m_err = None THEN {""}
                    ELSE MovedFromString(obj[r].m_err[1].message)) :
             MoveAssign(g, r, s) /\ UNCHANGED xvars
    \/ \E g \in Slots : Destroy(g) /\ UNCHANGED xvars
    \/ \E g \in Slots : HasData(g) /\ UNCHANGED xvars
    \/ \E g \in Slots : Ok(g) /\ UNCHANGED xvars
    \/ \E g \in Slots : Done(g) /\ UNCHANGED xvars
    \/ \E g \in Slots : ThrowError(g) /\ UNCHANGED xvars
    \/ \E g \in Slots : Error(g) /\ UNCHANGED xvars
    \/ \E g \in Slots : OperatorBool(g) /\ UNCHANGED xvars

SpecOne == InitOne /\ [][NextOne]_vars

----
TypeOK ==
    /\ live \subseteq Slots
    /\ raised \in 0..MaxRaised
    /\ \A g \in Slots : obj[g].m_saw_error \in BOOLEAN /\ Len(obj[g].m_err) <= 1

\* A live guard whose obligation is not discharged.
Dirty(g) == g \in live /\ ~obj[g].m_saw_error
NumDirty == Cardinality({g \in Slots : Dirty(g)})
Predicates == {"has_data", "ok", "done"}

\* C1: a step that ends the lifetime of a guard which is un-observed and has
\* an error attached throws exactly the attached error, whose code is the
\* guard's status; a step that ends the lifetime of an observed guard throws
\* nothing.
C1_DestructorRaisesAttachedError ==
    [][\A g \in Slots :
        (g \in live /\ g \notin live') =>
            /\ op'.name = "dtor" /\ op'.self = g
            /\ (~obj[g].m_saw_error /\ obj[g].m_err # None) =>
                  /\ op'.exc = obj[g].m_err
                  /\ op'.exc[1].code = obj[g].value
                  /\ raised' = raised + 1
            /\ obj[g].m_saw_error => (op'.exc = None /\ raised' = raised)
      ]_vars

\* C1 witness: the destructor has thrown code 5 / "disk I/O error".
C1_Witness ==
    /\ op.name = "dtor"
    /\ op.exc = Some(sql_error(5, "disk I/O error"))
    /\ raised = 1

\* C2: copy-constructing from an un-observed guard leaves the source
\* observed and the copy un-observed with the source's status and error,
\* throwing nothing; right after it, destroying the original throws nothing
\* and leaves the copy as it is, destroying the copy throws the error, and
\* error() on the copy returns the error without throwing.
C2_CopyCtorTransfersObligation ==
    [][\A g \in Slots, r \in Slots :
        /\ (op'.name = "copy_ctor" /\ op'.self = g /\ op'.rhs = r
              /\ ~obj[r].m_saw_error) =>
              /\ obj'[r].m_saw_error
              /\ ~obj'[g].m_saw_error
              /\ obj'[g].value = obj[r].value
              /\ obj'[g].m_err = obj[r].m_err
              /\ obj'[r].value = obj[r].value
              /\ obj'[r].m_err = obj[r].m_err
              /\ op'.exc = None /\ raised' = raised
        /\ (op.name = "copy_ctor" /\ op.self = g /\ op.rhs = r
              /\ ~obj[g].m_saw_error) =>
              /\ (op'.name = "dtor" /\ op'.self = r) =>
                    (op'.exc = None /\ raised' = raised /\ obj'[g] = obj[g])
              /\ (op'.name = "dtor" /\ op'.self = g) =>
                    (op'.exc # None /\ op'.exc = obj[g].m_err)
              /\ (op'.name = "error" /\ op'.self = g) =>
                    (op'.exc = None /\ op'.err = obj[g].m_err
                       /\ obj'[g].m_saw_error)
      ]_vars

\* C2 witness: a copy has just been constructed from an un-observed guard.
C2_Witness ==
    /\ op.name = "copy_ctor"
    /\ {op.self, op.rhs} \subseteq live
    /\ ~obj[op.self].m_saw_error
    /\ obj[op.self].m_err # None
    /\ obj[op.rhs].m_saw_error
    /\ obj[op.rhs].m_err = obj[op.self].m_err

\* C3: move-constructing or move-assigning from an un-observed source marks
\* the source observed and leaves only the destination un-observed.
C3_MoveTransfersObligation ==
    [][\A g \in Slots, r \in Slots :
        (op'.name \in {"move_ctor", "move_assign"} /\ op'.self = g
           /\ op'.rhs = r /\ g # r /\ ~obj[r].m_saw_error) =>
              (obj'[r].m_saw_error /\ ~obj'[g].m_saw_error)
      ]_vars

\* C4: among the guards descended by copying from one failure, at most one
\* live guard is un-observed, and the failure is thrown at most once.
C4_AtMostOneDirtyCopy == NumDirty <= 1 /\ raised <= 1

\* C4 witness: the destructor of one copy has thrown while another copy is
\* still alive.
C4_Witness ==
    /\ op.name = "dtor"
    /\ op.exc # None
    /\ raised = 1
    /\ live # {}

\* C5: the number of un-observed holders of the failure goes from one to
\* zero only by error() or throw_error() on the holder or by a destructor
\* that throws.
C5_ObligationNeverLost ==
    [][(NumDirty = 1 /\ NumDirty' = 0) =>
          \/ op'.name \in {"error", "throw_error"} /\ Dirty(op'.self)
          \/ op'.name = "dtor" /\ op'.exc # None
      ]_vars

\* C6: a guard built from a success status (SQLITE_OK by from_cmd, SQLITE_ROW
\* or SQLITE_DONE by from_stmt) has no error attached and is observed; so is
\* every guard copy- or move-constructed from such a guard; and destroying a
\* guard without an attached error throws nothing.
C6_SuccessNeverRaises ==
    [][\A g \in Slots :
        /\ (op'.name = "from_cmd" /\ op'.self = g /\ obj'[g].value = SQLITE_OK) =>
              (obj'[g].m_err = None /\ obj'[g].m_saw_error)
        /\ (op'.name = "from_stmt" /\ op'.self = g
              /\ obj'[g].value \in {SQLITE_ROW, SQLITE_DONE}) =>
              (obj'[g].m_err = None /\ obj'[g].m_saw_error)
        /\ (op'.name \in {"copy_ctor", "move_ctor"} /\ op'.self = g
              /\ obj[op'.rhs].m_err = None) =>
              (obj'[g].m_err = None /\ obj'[g].m_saw_error)
        /\ (op'.name = "dtor" /\ op'.self = g /\ obj[g].m_err = None) =>
              (op'.exc = None /\ raised' = raised)
      ]_vars

\* C6 witness: a copy of a guard built from SQLITE_DONE is alive, observed.
C6_Witness ==
    /\ op.name \in {"copy_ctor", "move_ctor"}
    /\ op.self \in live
    /\ obj[op.self].value = SQLITE_DONE
    /\ obj[op.self].m_err = None
    /\ obj[op.self].m_saw_error
    /\ raised = 0

\* C7: error() on an un-observed guard marks it observed, returns the
\* attached error, throws nothing and leaves status and error as they were;
\* destroying the guard right after throws nothing.
C7_ErrorDischarges ==
    [][\A g \in Slots :
        /\ (op'.name = "error" /\ op'.self = g /\ ~obj[g].m_saw_error) =>
              /\ obj'[g].m_saw_error
              /\ op'.err = obj[g].m_err /\ op'.err # None
              /\ op'.exc = None /\ raised' = raised
              /\ obj'[g].value = obj[g].value
              /\ obj'[g].m_err = obj[g].m_err
        /\ (op.name = "error" /\ op.self = g
              /\ op'.name = "dtor" /\ op'.self = g) =>
              (op'.exc = None /\ raised' = raised)
      ]_vars

\* C7 witness: error() has returned the error of a failure guard, which is
\* now observed and still carries the failure status.
C7_Witness ==
    /\ op.name = "error"
    /\ op.err = Some(sql_error(5, "disk I/O error"))
    /\ obj[op.self].m_saw_error
    /\ obj[op.self].value = 5
    /\ raised = 0

\* C8: throw_error() on a guard with an attached error marks it observed and
\* throws the attached error, once; destroying the guard right after throws
\* nothing more.
C8_ThrowErrorRaisesOnce ==
    [][\A g \in Slots :
        /\ (op'.name = "throw_error" /\ op'.self = g /\ obj[g].m_err # None) =>
              /\ obj'[g].m_saw_error
              /\ op'.exc = obj[g].m_err
              /\ raised' = raised + 1
        /\ (op.name = "throw_error" /\ op.self = g
              /\ op'.name = "dtor" /\ op'.self = g) =>
              (op'.exc = None /\ raised' = raised)
      ]_vars

\* C8 witness: throw_error() has thrown the attached error of a guard.
C8_Witness ==
    /\ op.name = "throw_error"
    /\ op.exc # None
    /\ op.exc = obj[op.self].m_err
    /\ obj[op.self].m_saw_error
    /\ raised = 1

\* C9: has_data(), ok() and done() return the comparison of the status with
\* SQLITE_ROW, SQLITE_OK and SQLITE_DONE and change nothing; an un-observed
\* guard destroyed right after such a call throws its error.
C9_PredicatesPassive ==
    [][\A g \in Slots :
        /\ (op'.name \in Predicates /\ op'.self = g) =>
              /\ obj' = obj /\ live' = live /\ raised' = raised
              /\ op'.exc = None
              /\ op'.name = "has_data" => op'.ret = (obj[g].value = SQLITE_ROW)
              /\ op'.name = "ok" => op'.ret = (obj[g].value = SQLITE_OK)
              /\ op'.name = "done" => op'.ret = (obj[g].value = SQLITE_DONE)
        /\ (op.name \in Predicates /\ op.self = g /\ ~obj[g].m_saw_error
              /\ op'.name = "dtor" /\ op'.self = g) =>
              (op'.exc # None /\ op'.exc = obj[g].m_err)
      ]_vars

\* C9 witness: a predicate has been called on a guard that is un-observed.
C9_Witness ==
    /\ op.name \in Predicates
    /\ op.self \in live
    /\ ~obj[op.self].m_saw_error
    /\ obj[op.self].m_err # None

\* C10: converting an un-observed guard to bool marks it observed.
C10_BoolConversionObserves ==
    [][\A g \in Slots :
        (op'.name = "operator_bool" /\ op'.self = g /\ ~obj[g].m_saw_error) =>
            obj'[g].m_saw_error
      ]_vars

----
\* ======================= operations on expected<T> ======================
\* expected(const T &rhs)
EValueCopyCtor(e, v) ==
    /\ e \notin elive
    /\ elive' = elive \cup {e}
    /\ eobj' = [eobj EXCEPT ![e] = ValueCtor(v)]
    /\ eop' = EOp("value_copy_ctor", e, 0, FALSE, None, None, FALSE,
                  Some(v), None, "", "")

\* expected(T &&rhs)
EValueMoveCtor(e, v) ==
    /\ e \notin elive
    /\ elive' = elive \cup {e}
    /\ eobj' = [eobj EXCEPT ![e] = ValueCtor(v)]
    /\ eop' = EOp("value_move_ctor", e, 0, FALSE, None, None, FALSE,
                  Some(v), None, "", "")

ECopyConstruct(e, r) ==
    /\ e \notin elive
    /\ r \in elive
    /\ elive' = elive \cup {e}
    /\ \E n \in ECopyCtor_new(eobj[r]) : eobj' = [eobj EXCEPT ![e] = n]
    /\ eop' = EOp("copy_ctor", e, r, FALSE, None, None, CtorUB(eobj[r]),
                  None, None, "", "")

EMoveConstruct(e, r) ==
    /\ e \notin elive
    /\ r \in elive
    /\ elive' = elive \cup {e}
    /\ \E n \in EMoveCtor_new(eobj[r]), m \in EMoveCtor_rhs(eobj[r]) :
          eobj' = [eobj EXCEPT ![e] = n, ![r] = m]
    /\ eop' = EOp("move_ctor", e, r, FALSE, None, None, CtorUB(eobj[r]),
                  None, None, "", "")

\* Self-assignment included.
ECopyAssign(e, r) ==
    /\ e \in elive
    /\ r \in elive
    /\ \E t \in EAssign_this(eobj[e], eobj[r]) : eobj' = [eobj EXCEPT ![e] = t]
    /\ eop' = EOp("copy_assign", e, r, FALSE, None, None,
                  AssignUB(eobj[e], eobj[r]), None, None, "", "")
    /\ UNCHANGED elive

EMoveAssign(e, r) ==
    /\ e \in elive
    /\ r \in elive
    /\ \E t \in EAssign_this(eobj[e], eobj[r]) :
          IF e = r
          THEN \E m \in EMoveAssign_rhs(t) : eobj' = [eobj EXCEPT ![e] = m]
          ELSE \E m \in EMoveAssign_rhs(eobj[r]) :
                  eobj' = [eobj EXCEPT ![e] = t, ![r] = m]
    /\ eop' = EOp("move_assign", e, r, FALSE, None, None,
                  AssignUB(eobj[e], eobj[r]), None, None, "", "")
    /\ UNCHANGED elive

EDestroy(e) ==
    /\ e \in elive
    /\ elive' = elive \ {e}
    /\ eobj' = [eobj EXCEPT ![e] = NoVariant]
    /\ eop' = EOp("dtor", e, 0, FALSE, None, None, EDtorUB(eobj[e]),
                  None, None, "", EDtor_member(eobj[e]))

\* from_exception(std::exception_ptr p); the result is returned by move.
FromException(e, p) ==
    /\ e \notin elive
    /\ elive' = elive \cup {e}
    /\ \E n \in EMoveCtor_new(from_exception(p)) : eobj' = [eobj EXCEPT ![e] = n]
    /\ eop' = EOp("from_exception", e, 0, FALSE, None, None, FALSE,
                  None, Some(p), "", "")

\* from_exception(const E &exception), the exception being of type D: thrown
\* back as std::invalid_argument when D is not E, captured as an E otherwise.
FromExceptionTyped(e, E, D, m) ==
    /\ e \notin elive
    /\ Catches(E, D)
    /\ IF D # E
       THEN /\ UNCHANGED <<elive, eobj>>
            /\ eop' = EOp("from_exception_typed", e, 0, FALSE, None,
                          Some(Exception("invalid_argument", "slicing detected")),
                          FALSE, None, Some(Exception(D, m)), E, "")
       ELSE /\ elive' = elive \cup {e}
            /\ \E n \in EMoveCtor_new(from_exception(Exception(E, m))) :
                  eobj' = [eobj EXCEPT ![e] = n]
            /\ eop' = EOp("from_exception_typed", e, 0, FALSE, None, None,
                          FALSE, None, Some(Exception(D, m)), E, "")

Valid(e) ==
    /\ e \in elive
    /\ eop' = EOp("valid", e, 0, valid(eobj[e]), None, None, FALSE,
                  None, None, "", "")
    /\ UNCHANGED <<elive, eobj>>

\* T &get()
Get(e) ==
    /\ e \in elive
    /\ \E o \in get(eobj[e]) :
          eop' = EOp("get", e, 0, FALSE, o.val, o.exc, o.ub, None, None, "", "")
    /\ UNCHANGED <<elive, eobj>>

\* const T &get() const
GetConst(e) ==
    /\ e \in elive
    /\ \E o \in get(eobj[e]) :
          eop' = EOp("get_const", e, 0, FALSE, o.val, o.exc, o.ub,
                     None, None, "", "")
    /\ UNCHANGED <<elive, eobj>>

HasException(e, E) ==
    /\ e \in elive
    /\ \E o \in has_exception(eobj[e], E) :
          eop' = EOp("has_exception", e, 0, o.ret, None, None, o.ub,
                     None, None, E, "")
    /\ UNCHANGED <<elive, eobj>>

\* from_code(fun), fun() returning a value or throwing.
FromCode(e, out) ==
    /\ e \notin elive
    /\ elive' = elive \cup {e}
    /\ \E n \in EMoveCtor_new(from_code(out)) : eobj' = [eobj EXCEPT ![e] = n]
    /\ eop' = EOp("from_code", e, 0, FALSE, None, None, FALSE,
                  IF out.thrown THEN None ELSE Some(out.val),
                  IF out.thrown THEN Some(out.exc) ELSE None, "", "")

\* The variables the operations on variants leave alone.
eframe == <<live, obj, raised, op, arg, pc, calls, rows, body>>

NextExpected ==
    \/ \E e \in ESlots, v \in Values : EValueCopyCtor(e, v) /\ UNCHANGED eframe
    \/ \E e \in ESlots, v \in Values : EValueMoveCtor(e, v) /\ UNCHANGED eframe
    \/ \E e \in ESlots, r \in ESlots : ECopyConstruct(e, r) /\ UNCHANGED eframe
    \/ \E e \in ESlots, r \in ESlots : EMoveConstruct(e, r) /\ UNCHANGED eframe
    \/ \E e \in ESlots, r \in ESlots : ECopyAssign(e, r) /\ UNCHANGED eframe
    \/ \E e \in ESlots, r \in ESlots : EMoveAssign(e, r) /\ UNCHANGED eframe
    \/ \E e \in ESlots : EDestroy(e) /\ UNCHANGED eframe
    \/ \E e \in ESlots, p \in ExcPtrs : FromException(e, p) /\ UNCHANGED eframe
    \/ \E e \in ESlots, E \in Kinds, D \in Kinds :
          FromExceptionTyped(e, E, D, "not found") /\ UNCHANGED eframe
    \/ \E e \in ESlots : Valid(e) /\ UNCHANGED eframe
    \/ \E e \in ESlots : Get(e) /\ UNCHANGED eframe
    \/ \E e \in ESlots : GetConst(e) /\ UNCHANGED eframe
    \/ \E e \in ESlots, E \in Kinds : HasException(e, E) /\ UNCHANGED eframe
    \/ \E e \in ESlots, out \in FunOutcomes : FromCode(e, out) /\ UNCHANGED eframe

SpecExpected == Init /\ [][NextExpected]_vars

\* Construction and destruction only, no assignment.
NextExpectedCtor ==
    \/ \E e \in ESlots, v \in Values : EValueCopyCtor(e, v) /\ UNCHANGED eframe
    \/ \E e \in ESlots, v \in Values : EValueMoveCtor(e, v) /\ UNCHANGED eframe
    \/ \E e \in ESlots, r \in ESlots : ECopyConstruct(e, r) /\ UNCHANGED eframe
    \/ \E e \in ESlots, r \in ESlots : EMoveConstruct(e, r) /\ UNCHANGED eframe
    \/ \E e \in ESlots : EDestroy(e) /\ UNCHANGED eframe
    \/ \E e \in ESlots, p \in ExcPtrs : FromException(e, p) /\ UNCHANGED eframe

SpecExpectedCtor == Init /\ [][NextExpectedCtor]_vars

----
\* ---- the factories on every status ----
NextFactory ==
    \/ \E g \in Slots, v \in Statuses, msg \in Messages :
          FromCmd(g, v, msg) /\ arg' = Arg("from_cmd", v, msg)
             /\ UNCHANGED <<evars, bvars>>
    \/ \E g \in Slots, v \in Statuses, msg \in Messages :
          FromStmt(g, v, msg) /\ arg' = Arg("from_stmt", v, msg)
             /\ UNCHANGED <<evars, bvars>>
    \/ \E g \in Slots : Destroy(g) /\ UNCHANGED xvars

SpecFactory == Init /\ [][NextFactory]_vars

\* C11: from_cmd builds an observed guard without error iff the status is
\* SQLITE_OK, from_stmt iff the status is SQLITE_ROW or SQLITE_DONE; for any
\* other status the guard is un-observed and carries an error whose code is
\* the status and whose message is the handle's message; the guard's status
\* is the status passed in.
C11_FactoryClassifiesStatus ==
    [][\A g \in Slots :
        (op'.name \in {"from_cmd", "from_stmt"} /\ op'.self = g) =>
            LET success == IF op'.name = "from_cmd"
                           THEN arg'.status = 0
                           ELSE arg'.status \in {100, 101}
            IN /\ arg'.fn = op'.name
               /\ g \in live'
               /\ obj'[g].value = arg'.status
               /\ success =>
                     (obj'[g].m_saw_error /\ obj'[g].m_err = None)
               /\ ~success =>
                     /\ ~obj'[g].m_saw_error
                     /\ Len(obj'[g].m_err) = 1
                     /\ obj'[g].m_err[1].code = arg'.status
                     /\ obj'[g].m_err[1].message = arg'.msg
      ]_vars

\* C11 witness: from_cmd was handed SQLITE_ROW, which it takes for a failure.
C11_Witness ==
    /\ op.name = "from_cmd"
    /\ arg.status = SQLITE_ROW
    /\ arg.msg = "database is locked"
    /\ ~obj[op.self].m_saw_error
    /\ obj[op.self].m_err = Some(sql_error(100, "database is locked"))

\* C19: every live guard that is un-observed has an error attached, so the
\* destructor's throw never dereferences an empty optional.
C19_DirtyHasError ==
    \A g \in live : ~obj[g].m_saw_error => obj[g].m_err # None

\* C19 witness: after a move assignment both guards are un-observed, each
\* with an error attached.
C19_Witness ==
    /\ op.name = "move_assign"
    /\ op.self # op.rhs
    /\ {op.self, op.rhs} \subseteq live
    /\ ~obj[op.self].m_saw_error /\ obj[op.self].m_err # None
    /\ ~obj[op.rhs].m_saw_error /\ obj[op.rhs].m_err # None

\* ---- expected<T> ----
\* The variant holds exactly the payload its tag names.
WellFormed(x) ==
    /\ (x.ham # None) = x.gotHam
    /\ (x.spam # None) = ~x.gotHam

\* The variant holds a value, or holds a captured error.
HoldsValue(x) == WellFormed(x) /\ x.gotHam
HoldsError(x) == WellFormed(x) /\ ~x.gotHam /\ x.spam # Some(NullPtr)

\* <<k, E>>: an exception of type k is an E.
IsA ==
    {<<k, k>> : k \in Kinds}
       \cup {<<"runtime_error", "exception">>, <<"logic_error", "exception">>}

Assignments == {"copy_assign", "move_assign"}
ValueCtors == {"value_copy_ctor", "value_move_ctor"}
Gets == {"get", "get_const"}

\* C12: copy or move assignment between two variants that each hold exactly
\* the payload their tag names touches no member that is not constructed,
\* and leaves the destination with the source's tag and the source's payload.
C12_AssignRespectsLivePayload ==
    [][\A e \in ESlots, r \in ESlots :
        (eop'.name \in Assignments /\ eop'.self = e /\ eop'.rhs = r
           /\ WellFormed(eobj[e]) /\ WellFormed(eobj[r])) =>
              /\ ~eop'.ub
              /\ eobj'[e].gotHam = eobj[r].gotHam
              /\ WellFormed(eobj'[e])
              /\ eobj[r].gotHam => eobj'[e].ham = eobj[r].ham
              /\ ~eobj[r].gotHam => eobj'[e].spam = eobj[r].spam
      ]_vars

\* C13: every variant made by the value constructors, from_exception, the
\* copy constructor or the move constructor has exactly the payload its tag
\* names constructed; copy and move construction give the source's tag and
\* read only the source's constructed payload; the destructor destroys the
\* payload the tag names, which is constructed.
C13_LivePayload ==
    [][/\ \A e \in elive' : WellFormed(eobj'[e])
       /\ \A e \in ESlots :
            /\ (eop'.name \in {"copy_ctor", "move_ctor"} /\ eop'.self = e) =>
                  /\ eobj'[e].gotHam = eobj[eop'.rhs].gotHam
                  /\ ~eop'.ub
            /\ (eop'.name = "dtor" /\ eop'.self = e) =>
                  /\ eop'.member = (IF eobj[e].gotHam THEN "ham" ELSE "spam")
                  /\ eop'.member = "ham" => eobj[e].spam = None
                  /\ eop'.member = "spam" => eobj[e].ham = None
                  /\ ~eop'.ub
                  /\ e \notin elive'
      ]_vars

\* C13 witness: a copy of a variant that holds an error has been made, the
\* copy holding the error only.
C13_Witness ==
    /\ eop.name = "copy_ctor"
    /\ {eop.self, eop.rhs} \subseteq elive
    /\ ~eobj[eop.self].gotHam
    /\ eobj[eop.self].ham = None
    /\ eobj[eop.self].spam = Some(Exception("logic_error", "not found"))
    /\ eobj[eop.rhs] = eobj[eop.self]

\* C14: the variant constructed from a value v, by copy or by move, is valid
\* and both forms of get() return v without throwing.
C14_WrapValue ==
    [][\A e \in ESlots :
        /\ (eop'.name \in ValueCtors /\ eop'.self = e) =>
              /\ valid(eobj'[e])
              /\ get(eobj'[e]) = {Outcome(eop'.argv, None, FALSE)}
              /\ eop'.argv # None
        /\ (eop.name \in ValueCtors /\ eop.self = e) =>
              /\ (eop'.name = "valid" /\ eop'.self = e) =>
                    (eop'.ret /\ eop'.exc = None)
              /\ (eop'.name \in Gets /\ eop'.self = e) =>
                    (eop'.val = eop.argv /\ eop'.exc = None /\ ~eop'.ub)
      ]_vars

\* C14 witness: get() const has returned 42.
C14_Witness ==
    /\ eop.name = "get_const"
    /\ eop.val = Some(42)
    /\ eop.exc = None
    /\ ~eop.ub
    /\ eobj[eop.self] = Variant(TRUE, Some(42), None)

\* C15: the variant made by from_exception of a captured error is not valid,
\* valid() throws nothing, get() throws that error and returns nothing, get()
\* leaves the variant as it is and a second get() throws the error again.
C15_WrapError ==
    [][\A e \in ESlots :
        /\ (eop'.name = "from_exception" /\ eop'.self = e
              /\ eop'.argp # Some(NullPtr)) =>
              /\ ~valid(eobj'[e])
              /\ get(eobj'[e]) = {Outcome(None, eop'.argp, FALSE)}
        /\ (eop.name = "from_exception" /\ eop.self = e
              /\ eop.argp # Some(NullPtr)) =>
              /\ (eop'.name = "valid" /\ eop'.self = e) =>
                    (~eop'.ret /\ eop'.exc = None)
              /\ (eop'.name \in Gets /\ eop'.self = e) =>
                    (eop'.exc = eop.argp /\ eop'.val = None /\ ~eop'.ub)
        /\ (eop'.name \in Gets) => (eobj' = eobj /\ elive' = elive)
        /\ (eop.name \in Gets /\ eop.self = e /\ eop.exc # None /\ ~eop.ub
              /\ eop'.name \in Gets /\ eop'.self = e) =>
              (eop'.exc = eop.exc /\ eop'.val = None)
      ]_vars

\* C15 witness: get() has thrown the captured runtime_error "not found".
C15_Witness ==
    /\ eop.name = "get"
    /\ eop.exc = Some(Exception("runtime_error", "not found"))
    /\ eop.val = None
    /\ ~eop.ub
    /\ eobj[eop.self].spam = eop.exc

\* C16: on a variant that holds a value or a captured error, has_exception<E>
\* throws nothing, changes nothing, and answers true exactly when the variant
\* holds an error whose type is E or derives from E.
C16_HasException ==
    [][\A e \in ESlots :
        (eop'.name = "has_exception" /\ eop'.self = e
           /\ (HoldsValue(eobj[e]) \/ HoldsError(eobj[e]))) =>
              /\ eop'.exc = None
              /\ ~eop'.ub
              /\ eobj' = eobj /\ elive' = elive
              /\ eop'.ret =
                    (/\ HoldsError(eobj[e])
                     /\ <<eobj[e].spam[1].kind, eop'.argk>> \in IsA)
      ]_vars

\* C16 witness: has_exception<exception> has answered true for a variant
\* that holds a runtime_error.
C16_Witness ==
    /\ eop.name = "has_exception"
    /\ eop.argk = "exception"
    /\ eop.ret
    /\ eobj[eop.self] = Variant(FALSE, None, Some(Exception("runtime_error", "not found")))

\* C17: from_code throws nothing; when fun returns v the variant is valid
\* and get() returns v; when fun throws x the variant is not valid, get()
\* throws x, has_exception answers true for the type of x and false for a
\* type x is not.
C17_FromCode ==
    [][\A e \in ESlots :
        /\ (eop'.name = "from_code" /\ eop'.self = e) =>
              /\ eop'.exc = None
              /\ e \in elive'
              /\ (eop'.argv # None) /= (eop'.argp # None)
              /\ eop'.argv # None =>
                    /\ valid(eobj'[e])
                    /\ get(eobj'[e]) = {Outcome(eop'.argv, None, FALSE)}
              /\ eop'.argp # None =>
                    /\ ~valid(eobj'[e])
                    /\ get(eobj'[e]) = {Outcome(None, eop'.argp, FALSE)}
                    /\ \A E \in Kinds :
                          has_exception(eobj'[e], E) =
                             {Probe(<<eop'.argp[1].kind, E>> \in IsA, FALSE)}
        /\ (eop.name = "from_code" /\ eop.self = e /\ eop.argp # None) =>
              /\ (eop'.name = "valid" /\ eop'.self = e) => ~eop'.ret
              /\ (eop'.name \in Gets /\ eop'.self = e) =>
                    (eop'.exc = eop.argp /\ eop'.val = None)
              /\ (eop'.name = "has_exception" /\ eop'.self = e) =>
                    (eop'.ret = (<<eop.argp[1].kind, eop'.argk>> \in IsA))
        /\ (eop.name = "from_code" /\ eop.self = e /\ eop.argv # None) =>
              /\ (eop'.name = "valid" /\ eop'.self = e) => eop'.ret
              /\ (eop'.name \in Gets /\ eop'.self = e) =>
                    (eop'.val = eop.argv /\ eop'.exc = None)
      ]_vars

\* C17 witness: from_code has captured the logic_error thrown by fun.
C17_Witness ==
    /\ eop.name = "from_code"
    /\ eop.argp = Some(Exception("logic_error", "not found"))
    /\ eop.exc = None
    /\ eobj[eop.self] = Variant(FALSE, None, eop.argp)

----
\* ---- the binding layer: connection, statement and the loop of main ----
MaxCalls == 3
MaxRows == 2

\* The operations that drop the guard of their native call.
BindingOps ==
    {"connection::create", "connection::create_memory", "statement::create",
     "bind", "step_dirty"}

StmtOps == {"step_dirty", "step"}

\* What the native call of an operation can return.
NativeResults(fn) == IF fn \in StmtOps THEN StmtResults ELSE CmdResults

\* The guard an operation builds from the status of its native call.
NativeGuard_AllCmd(fn, v, msg) == from_cmd(v, msg)
NativeGuard(fn, v, msg) ==
    IF fn \in StmtOps THEN from_stmt(v, msg) ELSE from_cmd(v, msg)

Called(fn, v) == [fn |-> fn, status |-> v]

\* Where control goes when the dropped guard has been destroyed.
AfterDiscard(x) == IF x = None THEN "main" ELSE "unwound"

\* The caller invokes a binding operation: the native call returns v and the
\* operation builds the guard it is about to drop.
Call(fn, v, msg) ==
    /\ pc = "main"
    /\ Len(calls) < MaxCalls
    /\ 1 \notin live
    /\ live' = live \cup {1}
    /\ obj' = [obj EXCEPT ![1] = NativeGuard(fn, v, msg)]
    /\ op' = Op(fn, 1, 0, FALSE, None, None)
    /\ calls' = Append(calls, Called(fn, v))
    /\ pc' = "discard"
    /\ UNCHANGED <<raised, rows, body>>

\* The dropped guard is destroyed before the operation returns.
Discard ==
    /\ pc = "discard"
    /\ Destroy(1)
    /\ pc' = AfterDiscard(op'.exc)
    /\ UNCHANGED <<calls, rows, body>>

\* main reaches the loop over the select statement it has just created; the
\* result set has n rows.
Select(n) ==
    /\ pc = "main"
    /\ calls # <<>>
    /\ calls[Len(calls)].fn = "statement::create"
    /\ rows' = n
    /\ body' = 0
    /\ pc' = "test"
    /\ UNCHANGED <<live, obj, raised, op, calls>>

\* The rows sqlite3_step has handed out so far.
Fetched ==
    Cardinality({i \in DOMAIN calls :
                   calls[i].fn = "step" /\ calls[i].status = SQLITE_ROW})

StepResults ==
    (IF Fetched < rows THEN {SQLITE_ROW} ELSE {SQLITE_DONE}) \cup FailureStatuses

\* select.step() in the loop condition.
Step(v, msg) ==
    /\ pc = "test"
    /\ 1 \notin live
    /\ live' = live \cup {1}
    /\ obj' = [obj EXCEPT ![1] = NativeGuard("step", v, msg)]
    /\ op' = Op("step", 1, 0, FALSE, None, None)
    /\ calls' = Append(calls, Called("step", v))
    /\ pc' = "convert"
    /\ UNCHANGED <<raised, rows, body>>

\* The loop condition converts the guard to bool.
Convert ==
    /\ pc = "convert"
    /\ OperatorBool(1)
    /\ pc' = "condition"
    /\ UNCHANGED <<calls, rows, body>>

\* The temporary guard is destroyed at the end of the condition; then the
\* body runs and the loop tests again, or the loop is left.
EndCondition ==
    /\ pc = "condition"
    /\ Destroy(1)
    /\ pc' = (IF op'.exc # None THEN "unwound"
              ELSE IF op.ret THEN "test" ELSE "end")
    /\ body' = (IF op'.exc = None /\ op.ret THEN body + 1 ELSE body)
    /\ UNCHANGED <<calls, rows>>

bframe == <<arg, elive, eobj, eop>>

NextBinding ==
    \/ \E fn \in BindingOps : \E v \in NativeResults(fn), msg \in Messages :
          Call(fn, v, msg) /\ UNCHANGED bframe
    \/ Discard /\ UNCHANGED bframe
    \/ \E n \in 0..MaxRows : Select(n) /\ UNCHANGED bframe
    \/ \E v \in StepResults, msg \in Messages : Step(v, msg) /\ UNCHANGED bframe
    \/ Convert /\ UNCHANGED bframe
    \/ EndCondition /\ UNCHANGED bframe

SpecBinding == Init /\ [][NextBinding]_vars

\* The status is a success status of the operation's native call.
Succeeded(c) ==
    IF c.fn \in StmtOps THEN c.status \in {SQLITE_ROW, SQLITE_DONE}
    ELSE c.status = SQLITE_OK

\* C18: the guard of select.step() converts to true when the step produced a
\* row and to false when there are no more rows, so the loop of main has run
\* its body once for each row when it ends.
C18_LoopVisitsEveryRow ==
    /\ pc = "condition" => (op.ret = (obj[1].value = SQLITE_ROW))
    /\ pc = "end" => body = rows

\* C20: when the dropped guard of a binding operation is destroyed, a failed
\* native call makes the destructor throw the error with the call's status
\* and control leaves the operation by that exception, a successful one lets
\* the operation return; no operation is called after one that failed.
C20_FailuresNotSwallowed ==
    [][/\ (pc = "discard") =>
             LET c == calls[Len(calls)] IN
             IF Succeeded(c)
             THEN op'.exc = None /\ pc' = "main" /\ raised' = raised
             ELSE /\ op'.exc # None
                  /\ op'.exc[1].code = c.status
                  /\ pc' = "unwound"
                  /\ raised' = raised + 1
       /\ \A i \in 1..(Len(calls') - 1) : Succeeded(calls'[i])
       /\ (pc = "unwound") => (calls' = calls /\ pc' = pc)
      ]_vars

\* C20 witness: in a chain of two bind calls the second has failed and its
\* error has left the operation.
C20_Witness ==
    /\ pc = "unwound"
    /\ Len(calls) = 2
    /\ calls[1] = Called("bind", SQLITE_OK)
    /\ calls[2].fn = "bind"
    /\ ~Succeeded(calls[2])
    /\ op.exc # None
    /\ raised = 1
====
